---- MODULE Spec2Model ----
\* Spacefish mobility utilities: the generation-tagged mobility cache, the
\* mobility scoring function, the mobility history table and the pawn part of
\* the two mobility calculators, modelled from src/unnamed/part_000
\* (mobility.h) and src/src/evaluate.cpp.
EXTENDS Integers, FiniteSets, Sequences, TLC

\* ---------------------------------------------------------------- bounds
\* Hashes stored and probed are h * CacheSize for h in 0..MaxKeyHigh: they all
\* fall in slot 0 and differ in their high bits, hash 0 included.
MaxKeyHigh == 1
\* MobilityInfo payloads are built from (our, MaxMob - our), our in 0..MaxMob.
MaxMob == 1
\* MobilityMetrics carry mobilities in 0..MaxMobility on each side.
MaxMobility == 12
\* History moves go from square f to square f + 1, f in 0..MaxFromSq.
MaxFromSq == 1
\* History bonuses are k * BonusStep for k in -MaxBonusSteps..MaxBonusSteps.
MaxBonusSteps == 3
\* At most MaxUpdates calls of MobilityHistory::update in one run.
MaxUpdates == 2
\* Pawn positions hold at most MaxPieces pieces.
MaxPieces == 2

\* ------------------------------------------------------- C++ arithmetic
Abs(x) == IF x < 0 THEN -x ELSE x

\* C++ integer division truncates toward zero (TLA+ \div floors).
TruncDiv(a, b) ==
    IF b > 0
    THEN (IF a >= 0 THEN a \div b ELSE -((-a) \div b))
    ELSE (IF a >= 0 THEN -(a \div (-b)) ELSE (-a) \div (-b))

\* std::clamp(v, lo, hi)
Clamp(v, lo, hi) == IF v < lo THEN lo ELSE IF hi < v THEN hi ELSE v

\* =========================================================== MobilityCache
VARIABLES
    table,              \* MobilityCache::table, restricted to the slots the hashes select
    currentGeneration,  \* MobilityCache::currentGeneration (uint8_t)
    ret,                \* what the last MobilityCache call returned
    lastStore,          \* history: per slot, the last store since the last clear()
    sinceClear,         \* history: the hashes stored since the last clear()
    dirty,              \* history: per slot, stored to since construction / last memset
    metrics,            \* the MobilityMetrics handed to mobility_score
    score,              \* what mobility_score returned
    htable,             \* MobilityHistory::table, restricted to the moves used
    hret,               \* what the last MobilityHistory::get returned
    hlast,              \* history: the last update's arguments and the entry before it
    touched,            \* history: the entries updated since the last clear()
    nUpdates,           \* number of update calls made
    pos,                \* the position handed to the mobility calculators
    fastCount,          \* pawn part of fast_mobility(pos, c)
    evalCount           \* pawn part of evaluate.cpp's mobility(pos, c)

cacheVars == <<table, currentGeneration, ret, lastStore, sinceClear, dirty>>
scoreVars == <<metrics, score>>
histVars == <<htable, hret, hlast, touched, nUpdates>>
pawnVars == <<pos, fastCount, evalCount>>
vars == <<cacheVars, scoreVars, histVars, pawnVars>>

CacheSize == 65536
GenerationModulus == 256

\* struct MobilityInfo, two-argument constructor
MobilityInfo(our, their) ==
    [ourMobility |-> our, theirMobility |-> their, differential |-> our - their]

\* a zeroed MobilityInfo (memset)
ZeroInfo == [ourMobility |-> 0, theirMobility |-> 0, differential |-> 0]

\* a zeroed Entry (memset over the table)
ZeroEntry == [key |-> 0, info |-> ZeroInfo, generation |-> 0]

Keys == {h * CacheSize : h \in 0..MaxKeyHigh}
Infos == {MobilityInfo(our, MaxMob - our) : our \in 0..MaxMob}

\* key & (CacheSize - 1); CacheSize is a power of two and keys are unsigned
SlotOf(key) == key % CacheSize
Slots == {SlotOf(k) : k \in Keys}

\* An optional value is a sequence of length 0 or 1.
Absent == <<>>
Void == <<>>
NoStore == <<>>

\* MobilityCache::probe, as a function of the cache state: the info the
\* returned pointer refers to, or Absent for nullptr.
ProbeNoKey(t, gen, key) ==
    LET e == t[SlotOf(key)]
    IN IF e.generation = gen THEN <<e.info>> ELSE Absent
ProbeValue(t, gen, key) ==
    LET e == t[SlotOf(key)]
    IN IF e.key = key /\ e.generation = gen THEN <<e.info>> ELSE Absent

\* MobilityCache::store
StoredTableNoGen(t, gen, key, info) ==
    [t EXCEPT ![SlotOf(key)] = [key |-> key, info |-> info, generation |-> @.generation]]
StoredTable(t, gen, key, info) ==
    [t EXCEPT ![SlotOf(key)] = [key |-> key, info |-> info, generation |-> gen]]

\* MobilityCache::clear: the cache state <<table, currentGeneration>> after it
ClearedNoMemset(t, gen) ==
    LET g == (gen + 1) % GenerationModulus
    IN IF g = 0 THEN <<t, 1>> ELSE <<t, g>>
ClearedNoRestart(t, gen) ==
    LET g == (gen + 1) % GenerationModulus
    IN IF g = 0 THEN <<[s \in DOMAIN t |-> ZeroEntry], g>> ELSE <<t, g>>
Cleared(t, gen) ==
    LET g == (gen + 1) % GenerationModulus
    IN IF g = 0 THEN <<[s \in DOMAIN t |-> ZeroEntry], 1>> ELSE <<t, g>>

CacheInit ==
    /\ table = [s \in Slots |-> ZeroEntry]
    /\ currentGeneration = 1
    /\ ret = Void
    /\ lastStore = [s \in Slots |-> NoStore]
    /\ sinceClear = {}
    /\ dirty = [s \in Slots |-> FALSE]

Store(key, info) ==
    /\ table' = StoredTable(table, currentGeneration, key, info)
    /\ ret' = Void
    /\ lastStore' = [lastStore EXCEPT ![SlotOf(key)] = <<[key |-> key, info |-> info]>>]
    /\ sinceClear' = sinceClear \cup {key}
    /\ dirty' = [dirty EXCEPT ![SlotOf(key)] = TRUE]
    /\ UNCHANGED <<currentGeneration, scoreVars, histVars, pawnVars>>

Probe(key) ==
    /\ ret' = <<[key |-> key, value |-> ProbeValue(table, currentGeneration, key)]>>
    /\ UNCHANGED <<table, currentGeneration, lastStore, sinceClear, dirty>>
    /\ UNCHANGED <<scoreVars, histVars, pawnVars>>

CacheClear ==
    /\ table' = Cleared(table, currentGeneration)[1]
    /\ currentGeneration' = Cleared(table, currentGeneration)[2]
    /\ ret' = Void
    /\ lastStore' = [s \in Slots |-> NoStore]
    /\ sinceClear' = {}
    /\ dirty' = IF (currentGeneration + 1) % GenerationModulus = 0
                THEN [s \in Slots |-> FALSE]
                ELSE dirty
    /\ UNCHANGED <<scoreVars, histVars, pawnVars>>

StoreAny == \E key \in Keys, info \in Infos : Store(key, info)
ProbeAny == \E key \in Keys : Probe(key)

CacheNext == StoreAny \/ ProbeAny \/ CacheClear

\* ========================================================== mobility_score

\* types.h (Stockfish value range)
VALUE_DRAW == 0
VALUE_MATE == 32000
MAX_PLY == 246
VALUE_MATE_IN_MAX_PLY == VALUE_MATE - MAX_PLY
VALUE_MATED_IN_MAX_PLY == -VALUE_MATE_IN_MAX_PLY
VALUE_TB == VALUE_MATE_IN_MAX_PLY - 1
VALUE_TB_WIN_IN_MAX_PLY == VALUE_TB - MAX_PLY
VALUE_TB_LOSS_IN_MAX_PLY == -VALUE_TB_WIN_IN_MAX_PLY

MobilityWeight == 32
MobilityNormalizer == 64
MobilityMateScore == VALUE_MATE_IN_MAX_PLY - 1
MobilityMatedScore == VALUE_MATED_IN_MAX_PLY + 1

NoScore == <<>>

MetricsSet ==
    [myMobility : 0..MaxMobility, oppMobility : 0..MaxMobility,
     myInCheck : BOOLEAN, oppInCheck : BOOLEAN]

\* mobility_score with the quotient rounded toward minus infinity
mobility_score_floor(m) ==
    IF m.myMobility = 0
    THEN (IF m.myInCheck THEN MobilityMatedScore ELSE VALUE_DRAW)
    ELSE IF m.oppMobility = 0
    THEN (IF m.oppInCheck THEN MobilityMateScore ELSE VALUE_DRAW)
    ELSE LET diff == m.myMobility - m.oppMobility
             total == m.myMobility + m.oppMobility + MobilityNormalizer
             scaled == diff * MobilityWeight * MobilityNormalizer
         IN Clamp(scaled \div total,
                  VALUE_TB_LOSS_IN_MAX_PLY + 1, VALUE_TB_WIN_IN_MAX_PLY - 1)

\* mobility_score taking any check on the opponent for mate
mobility_score_check_is_mate(m) ==
    IF m.myMobility = 0
    THEN (IF m.myInCheck THEN MobilityMatedScore ELSE VALUE_DRAW)
    ELSE IF m.oppInCheck
    THEN MobilityMateScore
    ELSE IF m.oppMobility = 0
    THEN VALUE_DRAW
    ELSE LET diff == m.myMobility - m.oppMobility
             total == m.myMobility + m.oppMobility + MobilityNormalizer
             scaled == diff * MobilityWeight * MobilityNormalizer
         IN Clamp(TruncDiv(scaled, total),
                  VALUE_TB_LOSS_IN_MAX_PLY + 1, VALUE_TB_WIN_IN_MAX_PLY - 1)

\* mobility_score testing the opponent's mobility before the mover's
mobility_score_opp_first(m) ==
    IF m.oppMobility = 0
    THEN (IF m.oppInCheck THEN MobilityMateScore ELSE VALUE_DRAW)
    ELSE IF m.myMobility = 0
    THEN (IF m.myInCheck THEN MobilityMatedScore ELSE VALUE_DRAW)
    ELSE LET diff == m.myMobility - m.oppMobility
             total == m.myMobility + m.oppMobility + MobilityNormalizer
             scaled == diff * MobilityWeight * MobilityNormalizer
         IN Clamp(TruncDiv(scaled, total),
                  VALUE_TB_LOSS_IN_MAX_PLY + 1, VALUE_TB_WIN_IN_MAX_PLY - 1)

\* mobility_score. scaled is a long long product; the quotient's magnitude is
\* below MobilityWeight * MobilityNormalizer, so narrowing it to Value (int)
\* keeps its value.
mobility_score(m) ==
    IF m.myMobility = 0
    THEN (IF m.myInCheck THEN MobilityMatedScore ELSE VALUE_DRAW)
    ELSE IF m.oppMobility = 0
    THEN (IF m.oppInCheck THEN MobilityMateScore ELSE VALUE_DRAW)
    ELSE LET diff == m.myMobility - m.oppMobility
             total == m.myMobility + m.oppMobility + MobilityNormalizer
             scaled == diff * MobilityWeight * MobilityNormalizer
         IN Clamp(TruncDiv(scaled, total),
                  VALUE_TB_LOSS_IN_MAX_PLY + 1, VALUE_TB_WIN_IN_MAX_PLY - 1)

\* the same metrics seen from the other side
Mirror(m) ==
    [myMobility |-> m.oppMobility, oppMobility |-> m.myMobility,
     myInCheck |-> m.oppInCheck, oppInCheck |-> m.myInCheck]

ScoreInit ==
    /\ metrics \in MetricsSet
    /\ score = NoScore

\* Eval::evaluate(pos): mobility_score of the position's metrics
Evaluate ==
    /\ score' = <<mobility_score(metrics)>>
    /\ UNCHANGED <<metrics, cacheVars, histVars, pawnVars>>

ScoreNext == Evaluate

\* ========================================================= MobilityHistory

HistoryMax == 16384
Int16Modulus == 65536

\* types.h: enum Color { WHITE, BLACK, COLOR_NB = 2 }
WHITE == 0
BLACK == 1
Colors == {WHITE, BLACK}

BonusStep == (HistoryMax \div 2) + 3
Bonuses == {k * BonusStep : k \in -MaxBonusSteps..MaxBonusSteps}

\* a Move, as <<from_sq, to_sq>>
Moves == {<<f, f + 1>> : f \in 0..MaxFromSq}
Entries == Colors \X Moves

NoUpdate == <<>>

\* conversion of an int to int16_t (the value modulo 2^16)
ToInt16(x) == ((x + (Int16Modulus \div 2)) % Int16Modulus) - (Int16Modulus \div 2)

\* MobilityHistory::update: the entry after the call, from the entry e before
\* it. e is promoted to int, the sum is converted back to int16_t by the
\* compound assignment, and std::clamp then works on the int16_t.
UpdatedEntryNoClamp(e, bonus) ==
    ToInt16(e + (bonus - TruncDiv(e * Abs(bonus), HistoryMax)))
UpdatedEntry(e, bonus) ==
    Clamp(ToInt16(e + (bonus - TruncDiv(e * Abs(bonus), HistoryMax))),
          -HistoryMax, HistoryMax)

HistoryInit ==
    /\ htable = [x \in Entries |-> 0]
    /\ hret = Void
    /\ hlast = NoUpdate
    /\ touched = {}
    /\ nUpdates = 0

HistoryClear ==
    /\ htable' = [x \in Entries |-> 0]
    /\ hret' = Void
    /\ hlast' = NoUpdate
    /\ touched' = {}
    /\ UNCHANGED <<nUpdates, cacheVars, scoreVars, pawnVars>>

HistoryGet(c, m) ==
    /\ hret' = <<[c |-> c, m |-> m, value |-> htable[<<c, m>>]]>>
    /\ UNCHANGED <<htable, hlast, touched, nUpdates, cacheVars, scoreVars, pawnVars>>

HistoryUpdate(c, m, bonus) ==
    /\ nUpdates < MaxUpdates
    /\ htable' = [htable EXCEPT ![<<c, m>>] = UpdatedEntry(@, bonus)]
    /\ hret' = Void
    /\ hlast' = <<[c |-> c, m |-> m, bonus |-> bonus, prev |-> htable[<<c, m>>]]>>
    /\ touched' = touched \cup {<<c, m>>}
    /\ nUpdates' = nUpdates + 1
    /\ UNCHANGED <<cacheVars, scoreVars, pawnVars>>

HistoryGetAny == \E c \in Colors, m \in Moves : HistoryGet(c, m)
HistoryUpdateAny == \E c \in Colors, m \in Moves, bonus \in Bonuses : HistoryUpdate(c, m, bonus)

HistoryNext == HistoryUpdateAny \/ HistoryGetAny \/ HistoryClear

\* ==================================================== pawn mobility count

NoCount == <<>>

\* bitboard.h: a Bitboard is the set of its squares; square = 8 * rank + file
Squares == 0..63
FileOf(s) == s % 8
RankOf(s) == s \div 8
RankBB(r) == {s \in Squares : RankOf(s) = r}
FileBB(f) == {s \in Squares : FileOf(s) = f}

\* bitboard.h: shift<D>(b); bits shifted off the board or across the a/h edge drop
Shift(d, b) ==
    CASE d = "NORTH" -> {s + 8 : s \in b} \cap Squares
      [] d = "SOUTH" -> {s - 8 : s \in b} \cap Squares
      [] d = "NORTH_EAST" -> {s + 9 : s \in b \ FileBB(7)} \cap Squares
      [] d = "NORTH_WEST" -> {s + 7 : s \in b \ FileBB(0)} \cap Squares
      [] d = "SOUTH_EAST" -> {s - 7 : s \in b \ FileBB(7)} \cap Squares
      [] d = "SOUTH_WEST" -> {s - 9 : s \in b \ FileBB(0)} \cap Squares

popcount(b) == Cardinality(b)

\* Position: the side c asked about, its pawns, its other pieces, the enemy's pieces
Occupied(p) == p.pawns \cup p.others \cup p.enemy
Friendly(p) == p.pawns \cup p.others

\* fast_mobility, the "Pawns" block
fast_mobility_pawns(p) ==
    LET occupied == Occupied(p)
        enemy == p.enemy
        pawns == p.pawns
    IN IF p.c = WHITE
       THEN popcount(Shift("NORTH", pawns) \ occupied)
            + popcount((Shift("NORTH", Shift("NORTH", pawns \cap RankBB(1))) \ occupied)
                       \cap RankBB(3))
            + popcount((Shift("NORTH_EAST", pawns) \cup Shift("NORTH_WEST", pawns)) \cap enemy)
       ELSE popcount(Shift("SOUTH", pawns) \ occupied)
            + popcount((Shift("SOUTH", Shift("SOUTH", pawns \cap RankBB(6))) \ occupied)
                       \cap RankBB(4))
            + popcount((Shift("SOUTH_EAST", pawns) \cup Shift("SOUTH_WEST", pawns)) \cap enemy)

\* evaluate.cpp mobility(), the pawn part
mobility_pawns(p) ==
    LET occ == Occupied(p)
        friendly == Friendly(p)
        pawns == p.pawns
        single == (IF p.c = WHITE THEN Shift("NORTH", pawns) ELSE Shift("SOUTH", pawns)) \ occ
        dblRank == IF p.c = WHITE THEN RankBB(2) ELSE RankBB(5)
        pawnAtt == IF p.c = WHITE
                   THEN Shift("NORTH_EAST", pawns) \cup Shift("NORTH_WEST", pawns)
                   ELSE Shift("SOUTH_EAST", pawns) \cup Shift("SOUTH_WEST", pawns)
    IN popcount(single)
       + popcount((IF p.c = WHITE THEN Shift("NORTH", single \cap dblRank)
                                  ELSE Shift("SOUTH", single \cap dblRank)) \ occ)
       + popcount(pawnAtt \ friendly)

\* The squares pieces are put on: the three ranks from the side's pawn rank on.
Band(c) == IF c = WHITE THEN RankBB(1) \cup RankBB(2) \cup RankBB(3)
                        ELSE RankBB(6) \cup RankBB(5) \cup RankBB(4)

RECURSIVE SetsUpTo(_, _)
SetsUpTo(S, n) ==
    IF n = 0 THEN {{}}
    ELSE LET prev == SetsUpTo(S, n - 1)
         IN prev \cup {q \cup {x} : q \in prev, x \in S}

Kinds == {"pawn", "other", "enemy"}

PawnInit ==
    /\ \E c \in Colors : \E placed \in SetsUpTo(Band(c), MaxPieces) :
         \E kind \in [placed -> Kinds] :
            pos = [c |-> c,
                   pawns |-> {s \in placed : kind[s] = "pawn"},
                   others |-> {s \in placed : kind[s] = "other"},
                   enemy |-> {s \in placed : kind[s] = "enemy"}]
    /\ fastCount = NoCount
    /\ evalCount = NoCount

FastMobility ==
    /\ fastCount' = <<fast_mobility_pawns(pos)>>
    /\ UNCHANGED <<pos, evalCount, cacheVars, scoreVars, histVars>>

EvalMobility ==
    /\ evalCount' = <<mobility_pawns(pos)>>
    /\ UNCHANGED <<pos, fastCount, cacheVars, scoreVars, histVars>>

PawnNext == FastMobility \/ EvalMobility

\* ========================================================== specifications
\* Each component is checked on its own; the other components stay as constructed.
ScoreIdle ==
    /\ metrics = [myMobility |-> 0, oppMobility |-> 0,
                  myInCheck |-> FALSE, oppInCheck |-> FALSE]
    /\ score = NoScore
PawnIdle ==
    /\ pos = [c |-> WHITE, pawns |-> {}, others |-> {}, enemy |-> {}]
    /\ fastCount = NoCount
    /\ evalCount = NoCount

InitCache == CacheInit /\ ScoreIdle /\ HistoryInit /\ PawnIdle
InitScore == ScoreInit /\ CacheInit /\ HistoryInit /\ PawnIdle
InitHistory == HistoryInit /\ CacheInit /\ ScoreIdle /\ PawnIdle
InitPawn == PawnInit /\ CacheInit /\ ScoreIdle /\ HistoryInit

SpecCache == InitCache /\ [][CacheNext]_vars
SpecScore == InitScore /\ [][ScoreNext]_vars
SpecHistory == InitHistory /\ [][HistoryNext]_vars
SpecPawn == InitPawn /\ [][PawnNext]_vars

\* ================================================================= claims

\* C1. Cache round trip: in every reachable cache state, the hash of the last
\* store(hash, info) into a slot since the last clear() probes to exactly that
\* info (so does the probe right after the store), with ourMobility and
\* theirMobility as given and differential = ourMobility - theirMobility; a
\* probe call made in that state returns it.
C1_RoundTrip ==
    \A s \in Slots :
        lastStore[s] # NoStore =>
            LET st == lastStore[s][1]
                v == ProbeValue(table, currentGeneration, st.key)
            IN /\ v = <<st.info>>
               /\ v[1].differential = v[1].ourMobility - v[1].theirMobility
               /\ v[1].ourMobility + v[1].theirMobility = MaxMob
               /\ (ret # Void /\ ret[1].key = st.key) => ret[1].value = <<st.info>>

\* A probe hit on the hash last stored, in a generation after the first, with
\* a nonzero differential.
C1_Witness ==
    /\ ret # Void
    /\ ret[1].value # Absent
    /\ currentGeneration > 1
    /\ lastStore[SlotOf(ret[1].key)] = <<[key |-> ret[1].key, info |-> ret[1].value[1]]>>
    /\ ret[1].value[1].differential
         = ret[1].value[1].ourMobility - ret[1].value[1].theirMobility
    /\ ret[1].value[1].differential # 0

\* C2. Generation invalidation: a hash that has not been stored since the last
\* clear() probes absent, whatever was stored under it in earlier generations
\* and however many clear() calls (wraps of the 8-bit counter included) lie
\* between; the probe call returns that absent.
C2_GenerationInvalidation ==
    /\ \A key \in Keys :
          key \notin sinceClear => ProbeValue(table, currentGeneration, key) = Absent
    /\ (ret # Void /\ ret[1].key \notin sinceClear) => ret[1].value = Absent

\* The slot still holds the hash with the generation of an earlier epoch, the
\* counter stands at its last value before the wrap, and the probe returned
\* absent.
C2_Witness ==
    /\ ret # Void
    /\ ret[1].value = Absent
    /\ ret[1].key \notin sinceClear
    /\ table[SlotOf(ret[1].key)].key = ret[1].key
    /\ table[SlotOf(ret[1].key)].generation = 1
    /\ currentGeneration = GenerationModulus - 1

\* C3. Always-replace, no false hits: a probe returns a value only if the last
\* store into its slot since the last clear() was a store of that very hash,
\* and then it returns the info of that store; so after a store of H2 every
\* other hash of the slot probes absent.
C3_NoFalseHit ==
    /\ \A key \in Keys :
          LET v == ProbeValue(table, currentGeneration, key)
              last == lastStore[SlotOf(key)]
          IN /\ v # Absent => last = <<[key |-> key, info |-> v[1]]>>
             /\ (last # NoStore /\ last[1].key # key) => v = Absent
    /\ (ret # Void /\ ret[1].value # Absent)
          => lastStore[SlotOf(ret[1].key)]
                = <<[key |-> ret[1].key, info |-> ret[1].value[1]]>>

\* H1 was stored in this generation, H2 of the same slot was stored over it,
\* and the probe of H1 returned absent.
C3_Witness ==
    /\ ret # Void
    /\ ret[1].value = Absent
    /\ ret[1].key \in sinceClear
    /\ lastStore[SlotOf(ret[1].key)] # NoStore
    /\ lastStore[SlotOf(ret[1].key)][1].key # ret[1].key
    /\ lastStore[SlotOf(ret[1].key)][1].key \in sinceClear

\* C4. Empty slots never hit: currentGeneration is always in 1..255, a slot not
\* stored to since construction or the last memset has generation 0, and every
\* hash of such a slot probes absent, hash 0 included.
C4_EmptySlotsNeverHit ==
    /\ currentGeneration \in 1..(GenerationModulus - 1)
    /\ \A key \in Keys :
          ~dirty[SlotOf(key)] =>
             /\ table[SlotOf(key)].generation = 0
             /\ ProbeValue(table, currentGeneration, key) = Absent
    /\ (ret # Void /\ ~dirty[SlotOf(ret[1].key)]) => ret[1].value = Absent

\* Hash 0 was probed on a zeroed slot, whose key is 0 too, and came back absent.
C4_Witness ==
    /\ ret = <<[key |-> 0, value |-> Absent]>>
    /\ ~dirty[SlotOf(0)]
    /\ table[SlotOf(0)] = ZeroEntry
    /\ currentGeneration > 1

\* C5 as stated. Score symmetry for every MobilityMetrics: the score of the
\* mirrored metrics is the negation of the score.
C5_SymmetryAll ==
    score # NoScore => mobility_score(Mirror(metrics)) = -score[1]

\* both sides without a move and at least one of them in check
BothStuckInCheck(m) ==
    m.myMobility = 0 /\ m.oppMobility = 0 /\ (m.myInCheck \/ m.oppInCheck)

\* C5 amended. Score symmetry for every MobilityMetrics except those with zero
\* mobility on both sides and a check flag set: the score of the mirrored
\* metrics is the negation of the score.
C5_Symmetry ==
    (score # NoScore /\ ~BothStuckInCheck(metrics))
        => mobility_score(Mirror(metrics)) = -score[1]

\* A negative score whose quotient was truncated, mirrored to its negation.
C5_Witness ==
    /\ score # NoScore
    /\ metrics.myMobility > 0
    /\ metrics.myMobility < metrics.oppMobility
    /\ score[1] < 0
    /\ score[1] * (metrics.myMobility + metrics.oppMobility + MobilityNormalizer)
         # (metrics.myMobility - metrics.oppMobility) * MobilityWeight * MobilityNormalizer
    /\ mobility_score(Mirror(metrics)) = -score[1]

C7_TerminalTable ==
    score # NoScore =>
        /\ metrics.myMobility = 0 =>
              score[1] = (IF metrics.myInCheck THEN MobilityMatedScore ELSE VALUE_DRAW)
        /\ (metrics.myMobility # 0 /\ metrics.oppMobility = 0) =>
              score[1] = (IF metrics.oppInCheck THEN MobilityMateScore ELSE VALUE_DRAW)

\* Both sides without a move and both in check: the first row decides, the
\* score is the mated constant.
C7_Witness ==
    /\ score = <<MobilityMatedScore>>
    /\ metrics.myMobility = 0
    /\ metrics.oppMobility = 0
    /\ metrics.myInCheck
    /\ metrics.oppInCheck

\* the update's result in exact integer arithmetic
ExactUpdate(e, bonus) ==
    Clamp(e + bonus - TruncDiv(e * Abs(bonus), HistoryMax), -HistoryMax, HistoryMax)

\* C8. History boundedness: from a cleared table, after any updates and
\* clears, every entry and every get result lies in -16384..16384, and an
\* entry not updated since the last clear reads 0.
C8_HistoryBounded ==
    /\ \A x \in Entries :
          /\ htable[x] \in (-HistoryMax)..HistoryMax
          /\ x \notin touched => htable[x] = 0
    /\ hret # Void =>
          /\ hret[1].value \in (-HistoryMax)..HistoryMax
          /\ <<hret[1].c, hret[1].m>> \notin touched => hret[1].value = 0

\* An update whose exact sum lies beyond the int16_t range was made, and get
\* returned the entry.
C8_Witness ==
    /\ hret # Void
    /\ hlast # NoUpdate
    /\ hlast[1].c = hret[1].c
    /\ hlast[1].m = hret[1].m
    /\ hlast[1].prev + hlast[1].bonus
          - TruncDiv(hlast[1].prev * Abs(hlast[1].bonus), HistoryMax)
          >= Int16Modulus \div 2
    /\ hret[1].value \in (-HistoryMax)..HistoryMax

\* C9. History update value: after update(c, m, bonus) on an entry e the entry
\* equals clamp(e + bonus - e * |bonus| / 16384, -16384, 16384) in exact
\* integer arithmetic.
C9_UpdateExact ==
    hlast # NoUpdate =>
        htable[<<hlast[1].c, hlast[1].m>>] = ExactUpdate(hlast[1].prev, hlast[1].bonus)

\* the pawn count of the mobility model: pawns with an empty single-push
\* square, starting-rank pawns with empty single- and double-push squares, and
\* diagonal pawn-attack target squares holding an enemy piece
PawnModel(p) ==
    LET occ == Occupied(p)
        fwd == IF p.c = WHITE THEN 8 ELSE -8
        startRank == IF p.c = WHITE THEN 1 ELSE 6
        targets(s) == {t \in Squares :
                         /\ RankOf(t) = RankOf(s) + (IF p.c = WHITE THEN 1 ELSE -1)
                         /\ FileOf(t) \in {FileOf(s) - 1, FileOf(s) + 1}}
    IN Cardinality({s \in p.pawns : s + fwd \in Squares \ occ})
       + Cardinality({s \in p.pawns :
                        /\ RankOf(s) = startRank
                        /\ s + fwd \in Squares \ occ
                        /\ s + 2 * fwd \in Squares \ occ})
       + Cardinality({t \in p.enemy : \E s \in p.pawns : t \in targets(s)})

\* C10. Pawn mobility matches the model: the pawn contribution of
\* fast_mobility and of mobility() both equal PawnModel of the position.
C10_PawnModel ==
    /\ fastCount # NoCount => fastCount[1] = PawnModel(pos)
    /\ evalCount # NoCount => evalCount[1] = PawnModel(pos)

====
